---- MODULE Spec2Model ----
(***************************************************************************)
(* A model of librustc/util/ppaux.rs: the textual renderer of type-system  *)
(* values.  A formatter is the sequence of string pieces written to it;    *)
(* every write! of the source appends its literal pieces and the pieces of *)
(* the values it formats, in order.                                        *)
(***************************************************************************)
EXTENDS Integers, Sequences, FiniteSets, TLC

VARIABLES verbose, interner, inp, out, prev, renders, num_supplied_defaults,
          gcalls, res, base

vars == <<verbose, interner, inp, out, prev, renders, num_supplied_defaults,
          gcalls, res, base>>

\* ------------------------------------------------------------------ bounds
MaxInputs == 2
MaxTypes == 2
MaxProj == 2
MaxRenders == 2
MaxRegions == 2
MaxElems == 3

\* ----------------------------------------------------------------- options
None == <<>>

Some(x) == <<x>>

is_some(o) == Len(o) = 1

is_none(o) == Len(o) = 0

\* ---------------------------------------------------------------- formatter
\* write!(f, "{}", s) for a string piece s: the empty string adds nothing.
Write(f, s) == IF s = "" THEN f ELSE Append(f, s)

\* ----------------------------------------------------------------- regions
\* BoundRegion: BrNamed(def_id, name) | BrAnon(n) | BrFresh(n) | BrEnv
MkBr(kind, name, n) == [bk |-> kind, name |-> name, n |-> n]

BrNamed(name) == MkBr("BrNamed", name, 0)

BrAnon(n) == MkBr("BrAnon", "", n)

BrFresh(n) == MkBr("BrFresh", "", n)

BrEnv == MkBr("BrEnv", "", 0)

\* Region: one record shape for every variant; br is the bound region of
\* ReLateBound, ReFree and ReSkolemized, n the binder depth, index or id.
MkRegion(kind, name, n, br) == [k |-> kind, name |-> name, n |-> n, br |-> br]

ReEarlyBound(index, name) == MkRegion("ReEarlyBound", name, index, BrEnv)

ReLateBound(depth, br) == MkRegion("ReLateBound", "", depth, br)

ReFree(scope, br) == MkRegion("ReFree", "", scope, br)

ReScope(id) == MkRegion("ReScope", "", id, BrEnv)

ReVar(vid) == MkRegion("ReVar", "", vid, BrEnv)

ReSkolemized(id, br) == MkRegion("ReSkolemized", "", id, br)

ReStatic == MkRegion("ReStatic", "", 0, BrEnv)

ReEmpty == MkRegion("ReEmpty", "", 0, BrEnv)

BoundRegionDebug(br) ==
    CASE br.bk = "BrAnon"  -> <<"BrAnon(", ToString(br.n), ")">>
      [] br.bk = "BrFresh" -> <<"BrFresh(", ToString(br.n), ")">>
      [] br.bk = "BrNamed" -> <<"BrNamed(", "0", ":", "0", ", ", br.name, ")">>
      [] br.bk = "BrEnv"   -> <<"BrEnv">>

BoundRegionDisplay(vb, br) ==
    IF vb THEN BoundRegionDebug(br)
    ELSE CASE br.bk = "BrNamed" -> Write(<<>>, br.name)
           [] br.bk \in {"BrAnon", "BrFresh", "BrEnv"} -> <<>>

RegionDebug(r) ==
    CASE r.k = "ReEarlyBound" ->
           <<"ReEarlyBound(", "TypeSpace", ", ", ToString(r.n), ", ", r.name, ")">>
      [] r.k = "ReLateBound" ->
           <<"ReLateBound(", "DebruijnIndex", ToString(r.n), ", ">>
               \o BoundRegionDebug(r.br) \o <<")">>
      [] r.k = "ReFree" ->
           <<"ReFree(", "CodeExtent", ToString(r.n), ", ">>
               \o BoundRegionDebug(r.br) \o <<")">>
      [] r.k = "ReScope" -> <<"ReScope(", "CodeExtent", ToString(r.n), ")">>
      [] r.k = "ReStatic" -> <<"ReStatic">>
      [] r.k = "ReVar" -> <<"'_#", ToString(r.n), "r">>
      [] r.k = "ReSkolemized" ->
           <<"ReSkolemized(", ToString(r.n), ", ">> \o BoundRegionDebug(r.br) \o <<")">>
      [] r.k = "ReEmpty" -> <<"ReEmpty">>

RegionDisplay(vb, r) ==
    IF vb THEN RegionDebug(r)
    ELSE CASE r.k = "ReEarlyBound" -> Write(<<>>, r.name)
           [] r.k \in {"ReLateBound", "ReFree", "ReSkolemized"} ->
                BoundRegionDisplay(vb, r.br)
           [] r.k \in {"ReScope", "ReVar"} -> <<>>
           [] r.k = "ReStatic" -> <<"'static">>
           [] r.k = "ReEmpty" -> <<"'<empty>">>

\* region.to_string().is_empty()
RegionIsEmptyString(vb, r) == RegionDisplay(vb, r) = <<>>

\* ------------------------------------------------------------------- types
\* One record shape for every variant: a holds the component types, n the
\* name, sp and ix the space and index of a parameter, r and mutbl the region
\* (an option) and the mutability of a reference.
MkTy(kind, args, name, space, idx) ==
    [k |-> kind, a |-> args, n |-> name, sp |-> space, ix |-> idx,
     r |-> None, mutbl |-> FALSE]

TyBool == MkTy("TyBool", <<>>, "bool", "", 0)

TyI32 == MkTy("TyInt", <<>>, "i32", "", 0)

TyTuple(tys) == MkTy("TyTuple", tys, "", "", 0)

TyNil == TyTuple(<<>>)

TypeAndMut(ty, mutbl) == [ty |-> ty, mutbl |-> mutbl]

\* TyRef(r, tm)
TyRef(r, tm) ==
    [MkTy("TyRef", <<tm.ty>>, "", "", 0) EXCEPT !.r = Some(r), !.mutbl = tm.mutbl]

TyError == MkTy("TyError", <<>>, "", "", 0)

\* TyParam(ParamTy {space, idx, name}); idx is 0-based as in the source.
TyParam(space, idx, name) == MkTy("TyParam", <<>>, name, space, idx)

TySelf == TyParam("SelfSpace", 0, "Self")

TyT0 == TyParam("TypeSpace", 0, "T")

\* The value a substitution of an out-of-range parameter would report (an
\* internal compiler error); it is no type a record holds.
TyICE == MkTy("ICE", <<>>, "", "", 0)

is_nil(ty) == ty.k = "TyTuple" /\ Len(ty.a) = 0

\* The arms below take the texts ds of the component types, already
\* formatted, where the source formats them in place with `{}`.
RECURSIVE TyDisplayTupleRest(_, _, _)
TyDisplayTupleRest(f, ds, i) ==
    IF i > Len(ds) THEN f
    ELSE TyDisplayTupleRest(Write(f, ", ") \o ds[i], ds, i + 1)

\* A tuple printer that joins the elements with ", " and nothing more.
TyDisplayTuple_plain_join(ds) ==
    LET f0 == Write(<<>>, "(")
        f1 == IF Len(ds) >= 1
              THEN TyDisplayTupleRest(f0 \o ds[1], ds, 2)
              ELSE f0
    IN  Write(f1, ")")

\* The TyTuple arm.
TyDisplayTuple(ds) ==
    LET f0 == Write(<<>>, "(")
        f1 == IF Len(ds) >= 1
              THEN LET g0 == Write(f0 \o ds[1], ",")
                   IN  IF Len(ds) >= 2
                       THEN TyDisplayTupleRest(Write(g0, " ") \o ds[2], ds, 3)
                       ELSE g0
              ELSE f0
    IN  Write(f1, ")")

\* impl Display for ty::TypeAndMut; d is the text of tm.ty.
TypeAndMutDisplay(tm, d) ==
    Write(<<>>, IF tm.mutbl THEN "mut " ELSE "") \o d

\* write!(f, "&")?; the region's text s; if !s.is_empty() { write!(f, " ")? }
RefHead(s) ==
    LET f1 == Write(<<>>, "&") \o s
    IN  IF s # <<>> THEN Write(f1, " ") ELSE f1

\* A reference printer that writes the space after the region whatever its
\* text.
TyDisplayRef_always_space(r, tm, d) ==
    LET f0 == Write(<<>>, "&")
        s == RegionDisplay(verbose, r)
    IN  Write(f0 \o s, " ") \o TypeAndMutDisplay(tm, d)

\* The TyRef arm; Region's Display asks verbose() itself.
TyDisplayRef(r, tm, d) ==
    RefHead(RegionDisplay(verbose, r)) \o TypeAndMutDisplay(tm, d)

RECURSIVE TyDisplay(_)
TyDisplay(ty) ==
    LET ds == [i \in 1..Len(ty.a) |-> TyDisplay(ty.a[i])]
    IN  CASE ty.k = "TyBool"  -> <<"bool">>
          [] ty.k = "TyInt"   -> <<ty.n>>
          [] ty.k = "TyRef"   -> TyDisplayRef(ty.r[1], TypeAndMut(ty.a[1], ty.mutbl), ds[1])
          [] ty.k = "TyTuple" -> TyDisplayTuple(ds)
          [] ty.k = "TyError" -> <<"[type error]">>
          [] ty.k = "TyParam" -> <<ty.n>>
          [] OTHER            -> <<"[ICE]">>

\* ------------------------------------------------------------------ fn_sig
FnConverging(ty) == [k |-> "FnConverging", ty |-> ty]

FnDiverging == [k |-> "FnDiverging", ty |-> TyNil]

RECURSIVE fn_sig_inputs(_, _, _)
fn_sig_inputs(f, inputs, i) ==
    IF i > Len(inputs) THEN f
    ELSE fn_sig_inputs(Write(f, ", ") \o TyDisplay(inputs[i]), inputs, i + 1)

\* A signature printer that writes the marker outside the test for a first
\* parameter.
fn_sig_params_marker_always(f, inputs, variadic) ==
    LET f0 == Write(f, "(")
        f1 == IF Len(inputs) >= 1
              THEN fn_sig_inputs(f0 \o TyDisplay(inputs[1]), inputs, 2)
              ELSE f0
        f2 == IF variadic THEN Write(f1, ", ...") ELSE f1
    IN  Write(f2, ")")

\* The parenthesised parameter list.
fn_sig_params(f, inputs, variadic) ==
    LET f0 == Write(f, "(")
        f1 == IF Len(inputs) >= 1
              THEN LET g0 == fn_sig_inputs(f0 \o TyDisplay(inputs[1]), inputs, 2)
                   IN  IF variadic THEN Write(g0, ", ...") ELSE g0
              ELSE f0
    IN  Write(f1, ")")

\* A signature printer that prints the unit type like any other output.
fn_sig_output_prints_unit(f, output) ==
    CASE output.k = "FnConverging" -> Write(f, " -> ") \o TyDisplay(output.ty)
      [] output.k = "FnDiverging" -> Write(f, " -> !")

\* The match on the output.
fn_sig_output(f, output) ==
    CASE output.k = "FnConverging" ->
           IF ~is_nil(output.ty) THEN Write(f, " -> ") \o TyDisplay(output.ty)
           ELSE f
      [] output.k = "FnDiverging" -> Write(f, " -> !")

fn_sig(f, inputs, variadic, output) ==
    fn_sig_output(fn_sig_params(f, inputs, variadic), output)

FnSigDisplay(sig) == fn_sig(Write(<<>>, "fn"), sig.inputs, sig.variadic, sig.output)

\* ------------------------------------------------------------------ substs
\* Substs: types and regions per parameter space.  lifts tells whether the
\* record is interned in the context the printer runs in (tcx.lift).
MkSubsts(tys, self_tys, fn_tys, regions, fn_regions, lifts) ==
    [types   |-> [TypeSpace |-> tys, SelfSpace |-> self_tys, FnSpace |-> fn_tys],
     regions |-> [TypeSpace |-> regions, SelfSpace |-> <<>>, FnSpace |-> fn_regions],
     lifts   |-> lifts]

self_ty(substs) ==
    IF Len(substs.types.SelfSpace) >= 1 THEN Some(substs.types.SelfSpace[1]) ELSE None

\* tcx.lift(&substs)
LiftSubsts(substs) == IF substs.lifts THEN Some(substs) ELSE None

\* tcx.lift(&ty) for a type of a generics descriptor
LiftTy(generics, ty) == IF generics.lifts THEN Some(ty) ELSE None

RECURSIVE has_self_ty(_)
has_self_ty(ty) ==
    \/ ty.k = "TyParam" /\ ty.sp = "SelfSpace"
    \/ \E i \in 1..Len(ty.a) : has_self_ty(ty.a[i])

RECURSIVE Subst(_, _)
Subst(ty, substs) ==
    CASE ty.k = "TyParam" ->
           IF ty.ix + 1 <= Len(substs.types[ty.sp])
           THEN substs.types[ty.sp][ty.ix + 1]
           ELSE TyICE
      [] ty.k = "TyTuple" ->
           TyTuple([i \in 1..Len(ty.a) |-> Subst(ty.a[i], substs)])
      [] OTHER -> ty

\* ---------------------------------------------- number_of_supplied_defaults
\* Generics: the type parameter definitions of the type space, each with an
\* optional default.
TypeParameterDef(default) == [default |-> default]

\* known tells whether the context can produce the descriptor at all.
MkGenerics(defs, lifts) ==
    [types |-> [TypeSpace |-> defs], lifts |-> lifts, known |-> TRUE]

\* get_generics(tcx): the lazy accessor a caller hands over.  It looks the
\* item up in the context; for an item the context does not know yet the
\* lookup is an internal compiler error and the call unwinds (None).
get_generics(generics) == IF generics.known THEN Some(generics) ELSE None

Min(a, b) == IF a <= b THEN a ELSE b

\* Whether a substitution reported an internal compiler error.
RECURSIVE is_ice(_)
is_ice(ty) == ty.k = "ICE" \/ \E i \in 1..Len(ty.a) : is_ice(ty.a[i])

\* A test that lets every default through to the substitution.
default_needs_self_never(has_self, default) == FALSE

\* !has_self && default.has_self_ty()
default_needs_self(has_self, default) == ~has_self /\ has_self_ty(default)

\* Whether the take_while predicate unwinds on one pair: the substitution of
\* the default meets a parameter the record has no argument for.
DefaultUnwinds(generics, substs, has_self, lsubsts, def) ==
    /\ is_some(def.default)
    /\ ~default_needs_self(has_self, def.default[1])
    /\ is_some(lsubsts)
    /\ is_some(LiftTy(generics, def.default[1]))
    /\ is_ice(Subst(def.default[1], lsubsts[1]))

\* The take_while predicate on one (def, actual) pair.
DefaultIsSupplied(generics, substs, has_self, lsubsts, def, actual) ==
    IF is_some(def.default)
    THEN IF default_needs_self(has_self, def.default[1])
         THEN FALSE
         ELSE LET default == LiftTy(generics, def.default[1])
                  subst == IF is_some(lsubsts) /\ is_some(default)
                           THEN Some(Subst(default[1], lsubsts[1]))
                           ELSE None
              IN  subst = Some(actual)
    ELSE FALSE

\* A scan that counts every supplied default instead of stopping at the first
\* pair that is none.
RECURSIVE TakeWhileRev_filter(_, _, _, _, _, _, _)
TakeWhileRev_filter(generics, substs, has_self, lsubsts, ty_params, tps, i) ==
    IF i = 0 THEN 0
    ELSE (IF DefaultIsSupplied(generics, substs, has_self, lsubsts, ty_params[i], tps[i])
          THEN 1 ELSE 0)
         + TakeWhileRev_filter(generics, substs, has_self, lsubsts, ty_params, tps, i - 1)

\* ty_params.iter().zip(tps).rev().take_while(..).count(), from pair i down.
RECURSIVE TakeWhileRev(_, _, _, _, _, _, _)
TakeWhileRev(generics, substs, has_self, lsubsts, ty_params, tps, i) ==
    IF i = 0 THEN 0
    ELSE IF DefaultIsSupplied(generics, substs, has_self, lsubsts, ty_params[i], tps[i])
         THEN 1 + TakeWhileRev(generics, substs, has_self, lsubsts, ty_params, tps, i - 1)
         ELSE 0

\* Whether the scan unwinds before it returns a count.
RECURSIVE TakeWhileRevUnwinds(_, _, _, _, _, _, _)
TakeWhileRevUnwinds(generics, substs, has_self, lsubsts, ty_params, tps, i) ==
    IF i = 0 THEN FALSE
    ELSE IF DefaultUnwinds(generics, substs, has_self, lsubsts, ty_params[i])
         THEN TRUE
         ELSE IF DefaultIsSupplied(generics, substs, has_self, lsubsts,
                                   ty_params[i], tps[i])
              THEN TakeWhileRevUnwinds(generics, substs, has_self, lsubsts,
                                       ty_params, tps, i - 1)
              ELSE FALSE

\* An elider that counts the trailing parameters with a default and never
\* looks at the arguments.
number_of_supplied_defaults_of_generics(substs, space, generics) ==
    LET ty_params == generics.types[space]
    IN  Cardinality({i \in 1..Len(ty_params) :
                        \A j \in i..Len(ty_params) : is_some(ty_params[j].default)})

\* An elider that looks at the last pair only.
number_of_supplied_defaults_last_only(substs, space, generics) ==
    LET ty_params == generics.types[space]
        tps == substs.types[space]
        m == Min(Len(ty_params), Len(tps))
    IN  IF m >= 1 /\ is_some(ty_params[Len(ty_params)].default)
           /\ DefaultIsSupplied(generics, substs, is_some(self_ty(substs)),
                                LiftSubsts(substs), ty_params[m], tps[m])
        THEN 1
        ELSE 0

number_of_supplied_defaults(substs, space, generics) ==
    LET has_self == is_some(self_ty(substs))
        ty_params == generics.types[space]
        tps == substs.types[space]
    IN  IF Len(ty_params) >= 1 /\ is_some(ty_params[Len(ty_params)].default)
        THEN TakeWhileRev(generics, substs, has_self, LiftSubsts(substs),
                          ty_params, tps, Min(Len(ty_params), Len(tps)))
        ELSE 0

\* Whether the call of number_of_supplied_defaults unwinds.
number_of_supplied_defaults_unwinds(substs, space, generics) ==
    LET has_self == is_some(self_ty(substs))
        ty_params == generics.types[space]
        tps == substs.types[space]
    IN  /\ Len(ty_params) >= 1
        /\ is_some(ty_params[Len(ty_params)].default)
        /\ TakeWhileRevUnwinds(generics, substs, has_self, LiftSubsts(substs),
                               ty_params, tps, Min(Len(ty_params), Len(tps)))

\* ------------------------------------------------------ collaborator lookups
\* The items the printer is asked about: a struct, a plain trait, the call
\* trait, a method of the call trait, a method of an inherent impl, and that
\* impl.
DefIds == {"Foo", "Iterator", "Fn", "Fn::call", "Bar::new", "impl Bar"}

item_path_str(did) ==
    CASE did = "Foo"      -> "Foo"
      [] did = "Iterator" -> "std::iter::Iterator"
      [] did = "Fn"       -> "std::ops::Fn"
      [] did = "Fn::call" -> "std::ops::Fn::call"
      [] did = "Bar::new" -> "Bar::new"
      [] did = "impl Bar" -> "Bar"

trait_of_item(did) == IF did = "Fn::call" THEN Some("Fn") ELSE None

impl_of_method(did) == IF did = "Bar::new" THEN Some("impl Bar") ELSE None

item_name(did) ==
    CASE did = "Fn::call" -> "call"
      [] did = "Bar::new" -> "new"
      [] OTHER            -> did

fn_trait_kind(did) == IF did = "Fn" THEN Some("Fn") ELSE None

or_else(o, p) == IF is_some(o) THEN o ELSE p

\* ------------------------------------------------------------ parameterized
ProjectionPredicate(name, ty) == [item_name |-> name, ty |-> ty]

\* The closure start_or_continue over the Cell `empty`; st = [f, empty].
start_or_continue(st, start, cont) ==
    IF st.empty
    THEN [f |-> Write(st.f, start), empty |-> FALSE]
    ELSE [f |-> Write(st.f, cont), empty |-> st.empty]

\* A region printer that writes the concise text as it is.
print_region_as_is(f, vb, region) ==
    IF vb THEN f \o RegionDebug(region) ELSE f \o RegionDisplay(vb, region)

print_region(f, vb, region) ==
    IF vb THEN f \o RegionDebug(region)
    ELSE LET s == RegionDisplay(vb, region)
         IN  IF s = <<>> THEN Write(f, "'_") ELSE f \o s

RECURSIVE PrintRegions(_, _, _, _, _)
PrintRegions(st, vb, regions, i, start) ==
    IF i > Len(regions) THEN st
    ELSE LET s1 == start_or_continue(st, start, ", ")
             s2 == [s1 EXCEPT !.f = print_region(s1.f, vb, regions[i])]
         IN  PrintRegions(s2, vb, regions, i + 1, start)

\* for &ty in &tys[..n] { start_or_continue(f, start, ", ")?; write!(f, "{}", ty)? }
RECURSIVE PrintTypes(_, _, _, _, _)
PrintTypes(st, tys, i, n, start) ==
    IF i > n THEN st
    ELSE LET s1 == start_or_continue(st, start, ", ")
             s2 == [s1 EXCEPT !.f = s1.f \o TyDisplay(tys[i])]
         IN  PrintTypes(s2, tys, i + 1, n, start)

\* A loop that writes the projections without asking start_or_continue.
RECURSIVE PrintProjections_unseparated(_, _, _)
PrintProjections_unseparated(st, projections, i) ==
    IF i > Len(projections) THEN st
    ELSE PrintProjections_unseparated(
             [st EXCEPT !.f = Write(Write(st.f, projections[i].item_name), "=")
                                  \o TyDisplay(projections[i].ty)],
             projections, i + 1)

RECURSIVE PrintProjections(_, _, _)
PrintProjections(st, projections, i) ==
    IF i > Len(projections) THEN st
    ELSE LET s1 == start_or_continue(st, "<", ", ")
             s2 == [s1 EXCEPT !.f = Write(Write(s1.f, projections[i].item_name), "=")
                                        \o TyDisplay(projections[i].ty)]
         IN  PrintProjections(s2, projections, i + 1)

\* The part of parameterized for values: name and method-level parameters.
ParameterizedValue(st, vb, substs, item) ==
    LET s0 == [st EXCEPT !.empty = TRUE]
        s1 == IF is_some(self_ty(substs)) THEN [s0 EXCEPT !.f = Write(s0.f, ">")] ELSE s0
        s2 == IF is_some(item)
              THEN [s1 EXCEPT !.f = Write(Write(s1.f, "::"), item[1])]
              ELSE s1
        s3 == PrintRegions(s2, vb, substs.regions.FnSpace, 1, "::<")
        s4 == PrintTypes(s3, substs.types.FnSpace, 1, Len(substs.types.FnSpace), "::<")
    IN  start_or_continue(s4, "", ">")

\* A guard that takes any number of projections for the sugar.
call_sugar_guard_any_projection(vb, kind, projections) ==
    ~vb /\ is_some(kind) /\ Len(projections) >= 1

\* !verbose && fn_trait_kind.is_some() && projections.len() == 1
call_sugar_guard(vb, kind, projections) ==
    ~vb /\ is_some(kind) /\ Len(projections) = 1

\* The call of number_of_supplied_defaults with the accessor: the count, the
\* number of calls of get_generics, and whether the call unwound.
call_number_of_supplied_defaults(substs, generics) ==
    IF is_none(get_generics(generics))
    THEN [nsd |-> -1, gcalls |-> 1, panic |-> TRUE]
    ELSE IF number_of_supplied_defaults_unwinds(substs, "TypeSpace",
                                                get_generics(generics)[1])
    THEN [nsd |-> -1, gcalls |-> 1, panic |-> TRUE]
    ELSE [nsd |-> number_of_supplied_defaults(substs, "TypeSpace",
                                              get_generics(generics)[1]),
          gcalls |-> 1, panic |-> FALSE]

\* A count that is computed whatever the verbosity.
elision_count_always(vb, substs, generics) ==
    call_number_of_supplied_defaults(substs, generics)

\* let num_supplied_defaults = if verbose { 0 } else { ... }
elision_count(vb, substs, generics) ==
    IF vb THEN [nsd |-> 0, gcalls |-> 0, panic |-> FALSE]
    ELSE call_number_of_supplied_defaults(substs, generics)

\* The result: the formatter, the elision count computed (-1 when the call
\* returned before computing one), the number of calls of get_generics, and
\* whether the call returned through the call-trait sugar.
parameterized(f, vb, substs, did, ns, projections, generics) ==
    LET f0 == IF ns = "Value" /\ is_some(self_ty(substs))
              THEN Write(Write(f, "<") \o TyDisplay(self_ty(substs)[1]), " as ")
              ELSE f
        parent == IF ns = "Value"
                  THEN or_else(trait_of_item(did), impl_of_method(did))
                  ELSE None
        did1 == IF is_some(parent) THEN parent[1] ELSE did
        item == IF is_some(parent) THEN Some(item_name(did)) ELSE None
        f1 == Write(f0, item_path_str(did1))
        tps == substs.types.TypeSpace
    IN  IF call_sugar_guard(vb, fn_trait_kind(did1), projections) /\ Len(tps) = 0
        THEN [f |-> f1, nsd |-> -1, gcalls |-> 0, sugar |-> FALSE, panic |-> TRUE]
        ELSE IF call_sugar_guard(vb, fn_trait_kind(did1), projections)
                /\ tps[1].k = "TyTuple"
        THEN [f |-> fn_sig(f1, tps[1].a, FALSE, FnConverging(projections[1].ty)),
              nsd |-> -1, gcalls |-> 0, sugar |-> TRUE, panic |-> FALSE]
        ELSE
        LET s0 == [f |-> f1, empty |-> TRUE]
            s1 == PrintRegions(s0, vb, substs.regions.TypeSpace, 1, "<")
            e == elision_count(vb, substs, generics)
        IN  IF e.panic
            THEN [f |-> s1.f, nsd |-> -1, gcalls |-> e.gcalls, sugar |-> FALSE,
                  panic |-> TRUE]
            ELSE
        LET nsd == e.nsd
            s2 == PrintTypes(s1, tps, 1, Len(tps) - nsd, "<")
            s3 == PrintProjections(s2, projections, 1)
            s4 == start_or_continue(s3, "", ">")
            s5 == IF ns = "Value" THEN ParameterizedValue(s4, vb, substs, item) ELSE s4
        IN  [f |-> s5.f, nsd |-> nsd, gcalls |-> e.gcalls,
             sugar |-> FALSE, panic |-> FALSE]

\* ---------------------------------------------------------------- in_binder
\* token::intern: the name of a string, entered in the interner's table.
intern(tbl, s) == [name |-> s, tbl |-> tbl \cup {s}]

\* TraitAndProjections(trait_ref, projection_bounds); a Binder<TraitRef> is the
\* same value with no projections.  generics is what the lazy accessor
\* tcx.lookup_trait_def(def_id).generics would return.
TraitRef(did, substs, generics) == [def_id |-> did, substs |-> substs, generics |-> generics]

TraitAndProjections(trait_ref, projections) ==
    [kind |-> "tap", trait_ref |-> trait_ref, projections |-> projections]

\* The original of the trait-object printer: ty::Binder("").
BinderStr(s) == [kind |-> "str", s |-> s]

TraitAndProjectionsDisplay(f, vb, v) ==
    IF v.kind = "str"
    THEN [f |-> Write(f, v.s), nsd |-> -1, gcalls |-> 0, sugar |-> FALSE, panic |-> FALSE]
    ELSE parameterized(f, vb, v.trait_ref.substs, v.trait_ref.def_id, "Type",
                       v.projections, v.trait_ref.generics)

\* A closure that takes the arm of the unnamed regions for every region.
BinderRegion_all_unnamed(bs, br) ==
    LET s1 == start_or_continue([f |-> bs.f, empty |-> bs.empty], "for<", ", ")
        name == intern(bs.tbl, "'r")
    IN  [f |-> Write(s1.f, name.name), empty |-> s1.empty, tbl |-> name.tbl,
         r |-> ReLateBound(1, BrNamed(name.name))]

\* A closure that makes a fresh name for an unnamed region out of the number
\* of names interned so far.
BinderRegion_gensym(bs, br) ==
    LET s1 == start_or_continue([f |-> bs.f, empty |-> bs.empty], "for<", ", ")
    IN  CASE br.bk = "BrNamed" ->
               [f |-> Write(s1.f, br.name), empty |-> s1.empty, tbl |-> bs.tbl,
                r |-> ReLateBound(1, br)]
          [] br.bk \in {"BrAnon", "BrFresh", "BrEnv"} ->
               LET name == intern(bs.tbl, "'r" \o ToString(Cardinality(bs.tbl)))
               IN  [f |-> Write(s1.f, name.name), empty |-> s1.empty, tbl |-> name.tbl,
                    r |-> ReLateBound(1, BrNamed(name.name))]

\* The closure given to replace_late_bound_regions; bs = [f, empty, tbl].
BinderRegion(bs, br) ==
    LET s1 == start_or_continue([f |-> bs.f, empty |-> bs.empty], "for<", ", ")
    IN  CASE br.bk = "BrNamed" ->
               [f |-> Write(s1.f, br.name), empty |-> s1.empty, tbl |-> bs.tbl,
                r |-> ReLateBound(1, br)]
          [] br.bk \in {"BrAnon", "BrFresh", "BrEnv"} ->
               LET name == intern(bs.tbl, "'r")
               IN  [f |-> Write(s1.f, name.name), empty |-> s1.empty, tbl |-> name.tbl,
                    r |-> ReLateBound(1, BrNamed(name.name))]

MapIndex(map, br) ==
    IF \E j \in 1..Len(map) : map[j][1] = br
    THEN CHOOSE j \in 1..Len(map) : map[j][1] = br
    ELSE 0

\* tcx.replace_late_bound_regions over a sequence of regions: the closure runs
\* once per distinct region bound at the binder, in the order met.
\* rs = [f, empty, tbl, map, done].
RECURSIVE ReplaceLateBoundRegions(_, _, _)
ReplaceLateBoundRegions(rs, regions, i) ==
    IF i > Len(regions) THEN rs
    ELSE LET r == regions[i]
         IN  IF r.k = "ReLateBound" /\ r.n = 1
             THEN IF MapIndex(rs.map, r.br) # 0
                  THEN ReplaceLateBoundRegions(
                           [rs EXCEPT !.done = Append(@, rs.map[MapIndex(rs.map, r.br)][2])],
                           regions, i + 1)
                  ELSE LET b == BinderRegion(rs, r.br)
                       IN  ReplaceLateBoundRegions(
                               [f |-> b.f, empty |-> b.empty, tbl |-> b.tbl,
                                map |-> Append(rs.map, <<r.br, b.r>>),
                                done |-> Append(rs.done, b.r)],
                               regions, i + 1)
             ELSE ReplaceLateBoundRegions([rs EXCEPT !.done = Append(@, r)], regions, i + 1)

\* A printer that names the bound regions of the original when there is no
\* lifted value.
in_binder_names_original(f, tbl, vb, original, lifted) ==
    LET value == IF is_none(lifted) THEN original ELSE lifted[1]
        rs0 == [f |-> f, empty |-> TRUE, tbl |-> tbl, map |-> <<>>, done |-> <<>>]
        rs1 == ReplaceLateBoundRegions(rs0, value.trait_ref.substs.regions.TypeSpace, 1)
        new_value == [value EXCEPT !.trait_ref.substs.regions.TypeSpace = rs1.done]
        s2 == start_or_continue([f |-> rs1.f, empty |-> rs1.empty], "", "> ")
    IN  [tbl |-> rs1.tbl] @@ TraitAndProjectionsDisplay(s2.f, vb, new_value)

in_binder(f, tbl, vb, original, lifted) ==
    IF is_none(lifted)
    THEN [tbl |-> tbl] @@ TraitAndProjectionsDisplay(f, vb, original)
    ELSE LET value == lifted[1]
             rs0 == [f |-> f, empty |-> TRUE, tbl |-> tbl, map |-> <<>>, done |-> <<>>]
             rs1 == ReplaceLateBoundRegions(rs0, value.trait_ref.substs.regions.TypeSpace, 1)
             new_value == [value EXCEPT !.trait_ref.substs.regions.TypeSpace = rs1.done]
             s2 == start_or_continue([f |-> rs1.f, empty |-> rs1.empty], "", "> ")
         IN  [tbl |-> rs1.tbl] @@ TraitAndProjectionsDisplay(s2.f, vb, new_value)

\* tcx.lift of a binder over a trait reference
LiftBinder(v) == IF v.trait_ref.substs.lifts THEN Some(v) ELSE None

\* impl Display for ty::Binder<ty::TraitRef>
BinderDisplay(f, tbl, vb, v) == in_binder(f, tbl, vb, v, LiftBinder(v))

\* ------------------------------------------------------------------ TraitTy
\* BuiltinBounds is an enum set; it is iterated in the order of the enum.
BuiltinBoundOrder == <<"Send", "Sized", "Copy", "Sync">>

ExistentialBounds(region_bound, builtin_bounds, projection_bounds) ==
    [region_bound |-> region_bound, builtin_bounds |-> builtin_bounds,
     projection_bounds |-> projection_bounds]

TraitTy(principal, bounds) == [principal |-> principal, bounds |-> bounds]

RECURSIVE PrintBuiltinBounds(_, _, _)
PrintBuiltinBounds(f, builtin_bounds, i) ==
    IF i > Len(BuiltinBoundOrder) THEN f
    ELSE PrintBuiltinBounds(
             IF BuiltinBoundOrder[i] \in builtin_bounds
             THEN Write(Write(f, " + "), BuiltinBoundOrder[i])
             ELSE f,
             builtin_bounds, i + 1)

\* The bounds written after the principal; r1 is what in_binder returned.
PrintBounds_region_first(r1, vb, bounds) ==
    LET bound == RegionDisplay(vb, bounds.region_bound)
        f2 == IF bound # <<>> THEN Write(r1.f, " + ") \o bound ELSE r1.f
        f3 == PrintBuiltinBounds(f2, bounds.builtin_bounds, 1)
    IN  [r1 EXCEPT !.f = f3]

PrintBounds(r1, vb, bounds) ==
    LET f2 == PrintBuiltinBounds(r1.f, bounds.builtin_bounds, 1)
        bound == RegionDisplay(vb, bounds.region_bound)
        f3 == IF bound # <<>> THEN Write(f2, " + ") \o bound ELSE f2
    IN  [r1 EXCEPT !.f = f3]

\* A printer that writes the region bound before the builtin bounds.
TraitTyDisplay_region_first(f, tbl, vb, data) ==
    IF ~data.principal.substs.lifts
    THEN [f |-> f, tbl |-> tbl, nsd |-> -1, gcalls |-> 0, sugar |-> FALSE, panic |-> TRUE]
    ELSE PrintBounds_region_first(
             in_binder(f, tbl, vb, BinderStr(""),
                       Some(TraitAndProjections(data.principal,
                                                data.bounds.projection_bounds))),
             vb, data.bounds)

TraitTyDisplay(f, tbl, vb, data) ==
    IF ~data.principal.substs.lifts
    THEN [f |-> f, tbl |-> tbl, nsd |-> -1, gcalls |-> 0, sugar |-> FALSE, panic |-> TRUE]
    ELSE PrintBounds(
             in_binder(f, tbl, vb, BinderStr(""),
                       Some(TraitAndProjections(data.principal,
                                                data.bounds.projection_bounds))),
             vb, data.bounds)

\* ------------------------------------------------------------------- inputs
SeqsUpTo(S, n) == UNION {[1..m -> S] : m \in 0..n}

SigTypes == {TyI32, TyBool, TyNil}

Outputs == {FnConverging(TyNil), FnConverging(TyI32), FnDiverging}

FnSig(inputs, variadic, output) ==
    [inputs |-> inputs, variadic |-> variadic, output |-> output]

TypeArgs == {TyI32, TyBool, TyTuple(<<TyI32, TyBool>>)}

Defaults == {None, Some(TyI32), Some(TySelf), Some(TyT0)}

SelfTys == {<<>>, <<TyBool>>}

Projections ==
    {ProjectionPredicate("Output", TyBool), ProjectionPredicate("Item", TyI32)}

PathRegions == {<<>>, <<ReEarlyBound(0, "'a")>>, <<ReScope(0), ReStatic>>}

FnSpaces ==
    {[types |-> <<>>, regions |-> <<>>],
     [types |-> <<TyI32>>, regions |-> <<>>],
     [types |-> <<TyBool>>, regions |-> <<ReEarlyBound(0, "'a"), ReVar(0)>>]}

BoundRegions ==
    {ReLateBound(1, BrAnon(0)), ReLateBound(1, BrAnon(1)),
     ReLateBound(1, BrNamed("'a")), ReLateBound(1, BrFresh(0)),
     ReLateBound(1, BrEnv), ReLateBound(2, BrAnon(0)),
     ReEarlyBound(0, "'b"), ReStatic}

ObjectRegions == {ReLateBound(1, BrAnon(0)), ReLateBound(1, BrNamed("'a")), ReStatic}

RegionBounds == {ReStatic, ReScope(0), ReEarlyBound(0, "'a")}

BuiltinBoundSets == {{}, {"Send"}, {"Sync", "Send"}}

NoSig == FnSig(<<>>, FALSE, FnDiverging)

NoSubsts == MkSubsts(<<>>, <<>>, <<>>, <<>>, <<>>, TRUE)

NoGenerics == MkGenerics(<<>>, TRUE)

NoBounds == ExistentialBounds(ReStatic, {}, <<>>)

NoBase == [set |-> FALSE, i |-> 0, nsd |-> 0, substs |-> NoSubsts]

MkInput(op, sig, substs, did, ns, projections, generics, bounds) ==
    [op |-> op, sig |-> sig, substs |-> substs, did |-> did, ns |-> ns,
     projections |-> projections, generics |-> generics, bounds |-> bounds,
     ty |-> TyNil]

\* The call traits are declared with exactly one type parameter (the argument
\* tuple), so a record for one of them holds exactly one type-space type.
WellFormed(did, tps) ==
    (did \in {"Fn", "Fn::call"}) => Len(tps) = 1

\* Signatures to print.
SigInput(v) ==
    \E i \in SeqsUpTo(SigTypes, MaxInputs), va \in BOOLEAN, o \in Outputs :
        v = MkInput("FnSig", FnSig(i, va, o), NoSubsts, "Foo", "Type", <<>>,
                    NoGenerics, NoBounds)

\* Paths of nominal types whose generics have defaults: every pairing of
\* arguments and parameter definitions, of equal length or not.
ElideInput(v) ==
    \E tps \in SeqsUpTo({TyI32, TyBool}, MaxTypes), self \in SelfTys,
       defs \in SeqsUpTo({TypeParameterDef(d) : d \in Defaults}, MaxTypes),
       ls \in BOOLEAN, lg \in BOOLEAN :
        \* a default names earlier parameters only
        /\ Len(defs) >= 1 => defs[1].default # Some(TyT0)
        /\ v = MkInput("parameterized", NoSig,
                    MkSubsts(tps, self, <<>>, <<>>, <<>>, ls),
                    "Foo", "Type", <<>>, MkGenerics(defs, lg), NoBounds)

PathItems ==
    {<<"Type", "Foo", [types |-> <<>>, regions |-> <<>>]>>,
     <<"Type", "Fn", [types |-> <<>>, regions |-> <<>>]>>}
    \cup {<<"Value", d, fs>> : d \in {"Foo", "Fn::call", "Bar::new"}, fs \in FnSpaces}

\* Paths in both namespaces, with and without a receiver, projections and
\* method-level parameters; the generics declare one parameter per argument.
PathInput(v) ==
    \E tps \in SeqsUpTo(TypeArgs, MaxTypes), self \in SelfTys, item \in PathItems,
       regions \in PathRegions,
       projections \in SeqsUpTo({ProjectionPredicate("Output", TyBool)}, MaxProj) :
        /\ WellFormed(item[2], tps)
        /\ \E defs \in [1..Len(tps) -> {TypeParameterDef(None), TypeParameterDef(Some(TyI32))}] :
              v = MkInput("parameterized", NoSig,
                          MkSubsts(tps, self, item[3].types, regions, item[3].regions, TRUE),
                          item[2], item[1], projections, MkGenerics(defs, TRUE), NoBounds)

\* Paths of items whose generics the context cannot produce yet.
UnknownGenericsInput(v) ==
    \E tps \in SeqsUpTo({TyTuple(<<TyI32, TyBool>>)}, 1), self \in SelfTys,
       item \in PathItems,
       projections \in {<<>>, <<ProjectionPredicate("Output", TyBool)>>} :
        /\ WellFormed(item[2], tps)
        /\ v = MkInput("parameterized", NoSig,
                       MkSubsts(tps, self, item[3].types, <<>>, item[3].regions, TRUE),
                       item[2], item[1], projections,
                       [NoGenerics EXCEPT !.known = FALSE], NoBounds)

TraitItems == {<<"Iterator", <<>>>>, <<"Fn", <<TyTuple(<<TyI32, TyBool>>)>>>>}

NoDefaults(tps) == MkGenerics([i \in 1..Len(tps) |-> TypeParameterDef(None)], TRUE)

\* Binders over trait references.
BinderInput(v) ==
    \E item \in TraitItems, regions \in SeqsUpTo(BoundRegions, MaxRegions), ls \in BOOLEAN :
        v = MkInput("Binder", NoSig,
                    MkSubsts(item[2], <<TyBool>>, <<>>, regions, <<>>, ls),
                    item[1], "Type", <<>>, NoDefaults(item[2]), NoBounds)

\* Trait objects: no receiver type.
TraitTyInput(v) ==
    \E item \in TraitItems, regions \in SeqsUpTo(ObjectRegions, MaxRegions), ls \in BOOLEAN,
       projections \in SeqsUpTo(Projections, MaxProj), rb \in RegionBounds,
       bb \in BuiltinBoundSets :
        v = MkInput("TraitTy", NoSig,
                    MkSubsts(item[2], <<>>, <<>>, regions, <<>>, ls),
                    item[1], "Type", projections, NoDefaults(item[2]),
                    ExistentialBounds(rb, bb, projections))

TupleElems ==
    {TyI32, TyBool, TyTuple(<<TyI32>>), TyRef(ReStatic, TypeAndMut(TyBool, FALSE))}

RefRegions ==
    {ReEarlyBound(0, "'a"), ReStatic, ReEmpty, ReScope(0), ReVar(0),
     ReLateBound(1, BrAnon(0)), ReLateBound(1, BrNamed("'a")),
     ReFree(0, BrEnv), ReSkolemized(0, BrFresh(0))}

RefInners ==
    {TyI32, TyBool, TyTuple(<<TyI32>>), TyRef(ReScope(0), TypeAndMut(TyI32, TRUE))}

\* Types to print: tuples and references.
TyInput(v) ==
    \E t \in {TyTuple(tys) : tys \in SeqsUpTo(TupleElems, MaxElems)}
              \cup {TyRef(r, TypeAndMut(ty, m)) :
                       r \in RefRegions, ty \in RefInners, m \in BOOLEAN} :
        v = [MkInput("Ty", NoSig, NoSubsts, "Foo", "Type", <<>>, NoGenerics, NoBounds)
                EXCEPT !.ty = t]

\* ------------------------------------------------------------ state machine
Init ==
    /\ verbose \in BOOLEAN
    /\ interner = {"'a", "'b"}
    /\ \/ SigInput(inp)
       \/ ElideInput(inp)
       \/ PathInput(inp)
       \/ UnknownGenericsInput(inp)
       \/ BinderInput(inp)
       \/ TraitTyInput(inp)
       \/ TyInput(inp)
    /\ out = <<>>
    /\ prev = <<>>
    /\ renders = 0
    /\ num_supplied_defaults = -1
    /\ gcalls = 0
    /\ res = "none"
    /\ base = NoBase

\* One call of a printer on the input, its text collected in out; a printer
\* that interns names returns the interner's table in r.tbl.
Rendered(r, tbl) ==
    /\ renders < MaxRenders
    /\ renders' = renders + 1
    /\ prev' = out
    /\ out' = r.f
    /\ num_supplied_defaults' = r.nsd
    /\ gcalls' = r.gcalls
    /\ res' = IF r.panic THEN "panic" ELSE IF r.sugar THEN "sugar" ELSE "Ok"
    /\ interner' = tbl
    /\ UNCHANGED <<verbose, inp, base>>

RenderedInterning(r) == Rendered(r, r.tbl)

\* impl Display for ty::FnSig
FmtFnSig ==
    /\ inp.op = "FnSig"
    /\ Rendered([f |-> FnSigDisplay(inp.sig), nsd |-> -1, gcalls |-> 0,
                 sugar |-> FALSE, panic |-> FALSE], interner)

\* impl Display for ty::TyS
FmtTy ==
    /\ inp.op = "Ty"
    /\ Rendered([f |-> TyDisplay(inp.ty), nsd |-> -1, gcalls |-> 0,
                 sugar |-> FALSE, panic |-> FALSE], interner)

CallParameterized ==
    /\ inp.op = "parameterized"
    /\ Rendered(parameterized(<<>>, verbose, inp.substs, inp.did, inp.ns,
                              inp.projections, inp.generics), interner)

InputTraitRef == TraitRef(inp.did, inp.substs, inp.generics)

FmtBinder ==
    /\ inp.op = "Binder"
    /\ RenderedInterning(BinderDisplay(<<>>, interner, verbose,
                                       TraitAndProjections(InputTraitRef, <<>>)))

FmtTraitTy ==
    /\ inp.op = "TraitTy"
    /\ RenderedInterning(TraitTyDisplay(<<>>, interner, verbose,
                                        TraitTy(InputTraitRef, inp.bounds)))

\* The caller prints the same path again with one elided type argument
\* replaced by another type.
MutateArg ==
    /\ inp.op = "parameterized"
    /\ renders >= 1
    /\ ~base.set
    /\ num_supplied_defaults >= 1
    /\ \E i \in 1..Len(inp.substs.types.TypeSpace), ty \in {TyI32, TyBool} :
          /\ i > Len(inp.substs.types.TypeSpace) - num_supplied_defaults
          /\ ty # inp.substs.types.TypeSpace[i]
          /\ inp' = [inp EXCEPT !.substs.types.TypeSpace[i] = ty]
          /\ base' = [set |-> TRUE, i |-> i, nsd |-> num_supplied_defaults,
                      substs |-> inp.substs]
    /\ renders' = 0
    /\ out' = <<>>
    /\ prev' = <<>>
    /\ num_supplied_defaults' = -1
    /\ gcalls' = 0
    /\ res' = "none"
    /\ UNCHANGED <<verbose, interner>>

Next ==
    \/ FmtFnSig
    \/ CallParameterized
    \/ FmtBinder
    \/ FmtTraitTy
    \/ FmtTy
    \/ MutateArg

Spec == Init /\ [][Next]_vars

\* ------------------------------------------------------- stating the claims
RECURSIVE Flatten(_)
Flatten(ss) == IF Len(ss) = 0 THEN <<>> ELSE ss[1] \o Flatten(Tail(ss))

\* The pieces of the entries ss, in order, with sep between neighbours.
Join(ss, sep) ==
    IF Len(ss) = 0 THEN <<>>
    ELSE Flatten([i \in 1..(2 * Len(ss) - 1) |->
                     IF i % 2 = 1 THEN ss[(i + 1) \div 2] ELSE <<sep>>])

Count(f, s) == Cardinality({i \in 1..Len(f) : f[i] = s})

\* Whether the pieces seg stand in f right after its first n pieces.
IsAt(f, n, seg) ==
    /\ n + Len(seg) <= Len(f)
    /\ \A i \in 1..Len(seg) : f[n + i] = seg[i]

Displays(tys) == [i \in 1..Len(tys) |-> TyDisplay(tys[i])]

SigDone == inp.op = "FnSig" /\ renders >= 1

\* "fn(" and the parameters, separated by ", "
SigHead == <<"fn", "(">> \o Join(Displays(inp.sig.inputs), ", ")

\* The marker stands after the last parameter and before the ")".
MarkerAfterLast == IsAt(out, Len(SigHead), <<", ...", ")">>)

\* C5 as stated: for every parameter list the marker `, ...` is printed after
\* the last parameter, inside the parentheses, whenever the variadic flag is
\* set, and never when it is not.
C5_AsStated ==
    SigDone =>
        /\ inp.sig.variadic => MarkerAfterLast
        /\ ~inp.sig.variadic => Count(out, ", ...") = 0

\* C5: for every non-empty parameter list the marker `, ...` is printed once,
\* after the last parameter and inside the parentheses, exactly when the
\* variadic flag is set; for the empty list no marker is printed at all.
C5_VariadicMarker ==
    SigDone =>
        /\ (inp.sig.variadic /\ Len(inp.sig.inputs) >= 1)
              => (MarkerAfterLast /\ Count(out, ", ...") = 1)
        /\ (~inp.sig.variadic \/ Len(inp.sig.inputs) = 0) => Count(out, ", ...") = 0

C5_Witness ==
    /\ SigDone
    /\ inp.sig.variadic
    /\ Len(inp.sig.inputs) = 2
    /\ MarkerAfterLast

SigTail ==
    CASE inp.sig.output = FnDiverging -> <<" -> !">>
      [] inp.sig.output = FnConverging(TyNil) -> <<>>
      [] OTHER -> <<" -> ">> \o TyDisplay(inp.sig.output.ty)

\* C6: the parameters are printed as a parenthesised list separated by ", ",
\* followed by nothing for a unit output, " -> T" for any other converging
\* output T and " -> !" for a diverging one.
C6_SignatureForm ==
    SigDone =>
        out = SigHead
              \o (IF inp.sig.variadic /\ Len(inp.sig.inputs) >= 1 THEN <<", ...">> ELSE <<>>)
              \o <<")">> \o SigTail

C6_Witness ==
    /\ SigDone
    /\ Len(inp.sig.inputs) = 2
    /\ inp.sig.output = FnConverging(TyI32)
    /\ out = <<"fn", "(">> \o TyDisplay(inp.sig.inputs[1]) \o <<", ">>
             \o TyDisplay(inp.sig.inputs[2]) \o <<")", " -> ", "i32">>

\* ---- paths
\* parameterized was called; it returned.
ParamCalled == inp.op = "parameterized" /\ renders >= 1

ParamDone == ParamCalled /\ res # "panic"

Tps == inp.substs.types.TypeSpace

Defs == inp.generics.types.TypeSpace

HasSelf == Len(inp.substs.types.SelfSpace) = 1

\* The item whose path is printed: the owner of an associated value.
Owner ==
    IF inp.ns = "Value" /\ inp.did \in {"Fn::call", "Bar::new"}
    THEN (IF inp.did = "Fn::call" THEN "Fn" ELSE "impl Bar")
    ELSE inp.did

IsCallTrait == Owner = "Fn"

SugarCase ==
    /\ ~verbose
    /\ IsCallTrait
    /\ Len(inp.projections) = 1
    /\ Len(Tps) = 1
    /\ Tps[1].k = "TyTuple"

ReceiverPrefix ==
    IF inp.ns = "Value" /\ HasSelf
    THEN <<"<">> \o TyDisplay(inp.substs.types.SelfSpace[1]) \o <<" as ">>
    ELSE <<>>

PathHead == ReceiverPrefix \o <<item_path_str(Owner)>>

RegionEntry(r) ==
    IF verbose THEN RegionDebug(r)
    ELSE IF RegionDisplay(FALSE, r) = <<>> THEN <<"'_">> ELSE RegionDisplay(FALSE, r)

RegionEntries(rs) == [i \in 1..Len(rs) |-> RegionEntry(rs[i])]

ProjectionEntries ==
    [i \in 1..Len(inp.projections) |->
        <<inp.projections[i].item_name, "=">> \o TyDisplay(inp.projections[i].ty)]

\* A generic-argument list: nothing when it has no entries.
GenericList(open, entries) ==
    IF Len(entries) = 0 THEN <<>> ELSE <<open>> \o Join(entries, ", ") \o <<">">>

\* The type-space list with the last kk type arguments left out.
TypeSpaceList(kk) ==
    GenericList("<", RegionEntries(inp.substs.regions.TypeSpace)
                     \o Displays(SubSeq(Tps, 1, Len(Tps) - kk))
                     \o ProjectionEntries)

\* The list seg stands in out after its first n pieces and ends there: an
\* empty list is not followed by the opening of a list.
ListAt(n, seg) ==
    /\ IsAt(out, n, seg)
    /\ inp.ns = "Type" => Len(out) = n + Len(seg)
    /\ (seg = <<>> /\ Len(out) > n) => out[n + 1] # "<"

\* ---- default elision
Pairs == Min(Len(Defs), Len(Tps))

\* The default of parameter i, substituted under the record, is argument i.
DefaultEquals(i) ==
    /\ is_some(Defs[i].default)
    /\ Subst(Defs[i].default[1], inp.substs) = Tps[i]

\* ... and both the record and the default can be lifted into the context
\* of the printer.
DefaultEqualsLifted(i) ==
    /\ DefaultEquals(i)
    /\ inp.substs.lifts
    /\ inp.generics.lifts

\* The longest run of pairs, counted from the last pair, that all satisfy
\* Eq: kk pairs satisfy it and the pair before them does not.
LongestRun(Eq(_)) ==
    CHOOSE kk \in 0..Pairs :
        /\ \A i \in (Pairs - kk + 1)..Pairs : Eq(i)
        /\ kk < Pairs => ~Eq(Pairs - kk)

LastHasDefault == Len(Defs) >= 1 /\ is_some(Defs[Len(Defs)].default)

\* number_of_supplied_defaults was called by the last call.
ElisionDone == ParamDone /\ gcalls = 1

\* C2: number_of_supplied_defaults returns 0 when the space is empty or its
\* last parameter has no default, otherwise the length of the longest run of
\* pairs, counted from the tail, whose parameter has a default that,
\* substituted under the (lifted) record, equals the actual argument; the run
\* stops at the first mismatch or parameter without a default.
C2_LongestDefaultRun ==
    ElisionDone =>
        num_supplied_defaults =
            IF LastHasDefault THEN LongestRun(DefaultEqualsLifted) ELSE 0

C2_Witness ==
    /\ ElisionDone
    /\ Len(Tps) = 2
    /\ Len(Defs) = 2
    /\ DefaultEqualsLifted(2)
    /\ ~DefaultEqualsLifted(1)
    /\ is_some(Defs[1].default)
    /\ num_supplied_defaults = 1

\* The elision case of C1: a concise, unsugared path whose generics declare
\* one parameter per type argument.
ElisionCase == ParamDone /\ ~verbose /\ ~SugarCase /\ Len(Defs) = Len(Tps)

\* The path was printed before with base.nsd trailing arguments elided, one
\* of them, argument base.i, was then changed to a value that is not its
\* default, and the changed path has been printed.
MutatedCase ==
    /\ ElisionCase
    /\ base.set
    /\ ~DefaultEqualsLifted(base.i)

LaterStillDefault == \A j \in (base.i + 1)..Len(Tps) : DefaultEqualsLifted(j)

\* C1 as stated: the trailing arguments that equal their substituted defaults
\* are omitted, and after one of them is changed to a non-default value that
\* argument and all later arguments are printed.
C1_AsStated ==
    /\ ElisionCase =>
          ListAt(Len(PathHead), TypeSpaceList(LongestRun(DefaultEqualsLifted)))
    /\ MutatedCase => ListAt(Len(PathHead), TypeSpaceList(0))

\* C1: in non-verbose mode the printed list omits exactly the trailing type
\* arguments that equal their substituted defaults; after one of them is
\* changed to a non-default value, that argument and all earlier arguments
\* are printed, and the later arguments stay omitted while they still equal
\* their defaults.
C1_DefaultElision ==
    /\ ElisionCase =>
          ListAt(Len(PathHead), TypeSpaceList(LongestRun(DefaultEqualsLifted)))
    /\ MutatedCase =>
          /\ \E kk \in 0..(Len(Tps) - base.i) : ListAt(Len(PathHead), TypeSpaceList(kk))
          /\ LaterStillDefault =>
                ListAt(Len(PathHead), TypeSpaceList(Len(Tps) - base.i))

C1_Witness ==
    /\ MutatedCase
    /\ base.nsd = 2
    /\ base.i = 1
    /\ LaterStillDefault
    /\ out = <<"Foo", "<">> \o TyDisplay(Tps[1]) \o <<">">>

\* ---- binders
BinderDone == inp.op = "Binder" /\ renders >= 1

BinderRegionsIn == inp.substs.regions.TypeSpace

\* The region is bound by the binder being printed.
IsBoundHere(r) == r.k = "ReLateBound" /\ r.n = 1

\* The places where a region bound here is met for the first time.
FirstMet(rs) ==
    {i \in 1..Len(rs) : IsBoundHere(rs[i]) /\ \A j \in 1..(i - 1) : rs[j] # rs[i]}

\* The distinct regions bound here, in the order met.
DistinctBound(rs) ==
    [n \in 1..Cardinality(FirstMet(rs)) |->
        rs[CHOOSE i \in FirstMet(rs) : Cardinality({j \in FirstMet(rs) : j <= i}) = n]]

DisplayName(r) == IF r.br.bk = "BrNamed" THEN r.br.name ELSE "'r"

BinderPrefix(rs) ==
    IF Len(DistinctBound(rs)) = 0 THEN <<>>
    ELSE <<"for<">>
         \o Join([n \in 1..Len(DistinctBound(rs)) |-> <<DisplayName(DistinctBound(rs)[n])>>], ", ")
         \o <<"> ">>

Renamed(rs) ==
    [i \in 1..Len(rs) |->
        IF IsBoundHere(rs[i]) THEN ReLateBound(1, BrNamed(DisplayName(rs[i]))) ELSE rs[i]]

\* The body: the trait reference with the regions rs in its type space.
BinderBody(rs) ==
    <<item_path_str(inp.did)>>
    \o GenericList("<", RegionEntries(rs) \o Displays(Tps) \o ProjectionEntries)

\* C3: given a lifted value, in_binder prints `for<n1, n2, ...> ` with one name
\* per distinct bound region in the order met, a named region under its own
\* name and every unnamed one as 'r, then the body; it prints no prefix when
\* the value binds no region.
C3_BinderPrefix ==
    (BinderDone /\ inp.substs.lifts) =>
        out = BinderPrefix(BinderRegionsIn) \o BinderBody(Renamed(BinderRegionsIn))

C3_Witness ==
    /\ BinderDone
    /\ inp.substs.lifts
    /\ BinderRegionsIn = <<ReLateBound(1, BrNamed("'a")), ReLateBound(1, BrAnon(0))>>
    /\ IsAt(out, 0, <<"for<", "'a", ", ", "'r", "> ">>)

\* C4: a second render of the same input under the same verbosity flag gives
\* the text of the first, whatever the renders before it left behind.
C4_Deterministic == renders >= 2 => out = prev

C4_Witness ==
    /\ renders >= 2
    /\ inp.op = "Binder"
    /\ "'r" \in interner
    /\ IsAt(out, 0, <<"for<", "'r", ", ", "'r", "> ">>)
    /\ out = prev

\* ---- the generic-argument list, the sugar, the value parts
\* The elision count of a path: none in verbose mode.
Elided ==
    IF verbose THEN 0
    ELSE IF LastHasDefault THEN LongestRun(DefaultEqualsLifted) ELSE 0

\* C7: when the sugar does not apply, the item path is followed by one list
\* `<...>` of the type-space regions, the type arguments but the elided
\* trailing ones, and `name=Type` per projection, separated by ", "; neither
\* `<` nor `>` is printed for a list without entries.
C7_GenericList ==
    (ParamDone /\ ~SugarCase) =>
        /\ num_supplied_defaults = Elided
        /\ ListAt(Len(PathHead), TypeSpaceList(Elided))

C7_Witness ==
    /\ ParamDone
    /\ ~verbose
    /\ num_supplied_defaults = 1
    /\ out = <<"Foo", "<", "'a", ", ", "bool", ", ", "Output", "=", "bool", ">">>

\* The signature form of the sugar: the element types of the tuple, then the
\* type of the projection as converging output.
SugarSignature ==
    <<"(">> \o Join(Displays(Tps[1].a), ", ") \o <<")">>
    \o (IF inp.projections[1].ty = TyNil THEN <<>>
        ELSE <<" -> ">> \o TyDisplay(inp.projections[1].ty))

\* C8: the sugar is applied exactly when verbosity is off, the printed item
\* is a call trait, there is exactly one projection and the sole type-space
\* argument is a tuple; the text is then the path and the signature form, and
\* no generic-argument list; it is never applied in verbose mode.
C8_CallSugar ==
    ParamDone =>
        /\ (res = "sugar") <=> SugarCase
        /\ SugarCase => out = PathHead \o SugarSignature
        /\ verbose => res # "sugar"

C8_Witness ==
    /\ ParamDone
    /\ res = "sugar"
    /\ out = <<"std::ops::Fn", "(", "i32", ", ", "bool", ")", " -> ", "bool">>

IsAssociated == inp.did \in {"Fn::call", "Bar::new"}

\* The parts printed for a value after the type-space list.
ValueTail ==
    (IF HasSelf THEN <<">">> ELSE <<>>)
    \o (IF IsAssociated THEN <<"::", item_name(inp.did)>> ELSE <<>>)
    \o GenericList("::<", RegionEntries(inp.substs.regions.FnSpace)
                          \o Displays(inp.substs.types.FnSpace))

\* What follows the path: the signature form of the sugar, or the list.
AfterPath == IF SugarCase THEN SugarSignature ELSE TypeSpaceList(Elided)

\* C9: for namespace Value the text is `<Receiver as ` when there is a
\* receiver, the path of the item or of its owner, the type-space arguments,
\* `>` closing the receiver, `::itemName` for an associated value, and the
\* list `::<...>` of all method-level regions and types, left out when empty;
\* for namespace Type it is the path and the type-space arguments alone.
C9_ValueParts ==
    ParamDone =>
        out = PathHead \o AfterPath \o (IF inp.ns = "Value" THEN ValueTail ELSE <<>>)

\* The value parts of C9 on the calls that do not take the sugar.
C9_UnlessSugar ==
    (ParamDone /\ ~SugarCase) =>
        out = PathHead \o AfterPath \o (IF inp.ns = "Value" THEN ValueTail ELSE <<>>)

\* ---- trait objects
TraitTyDone == inp.op = "TraitTy" /\ renders >= 1 /\ res # "panic"

Capabilities ==
    Flatten([i \in 1..Len(BuiltinBoundOrder) |->
                IF BuiltinBoundOrder[i] \in inp.bounds.builtin_bounds
                THEN <<" + ", BuiltinBoundOrder[i]>>
                ELSE <<>>])

RegionBoundPart ==
    IF RegionDisplay(verbose, inp.bounds.region_bound) = <<>> THEN <<>>
    ELSE <<" + ">> \o RegionDisplay(verbose, inp.bounds.region_bound)

\* C10 as stated: binder prefix, principal path with one merged generic list,
\* ` + Capability` per builtin bound, ` + region` for a non-empty region text.
C10_AsStated ==
    TraitTyDone =>
        out = BinderPrefix(BinderRegionsIn) \o BinderBody(Renamed(BinderRegionsIn))
              \o Capabilities \o RegionBoundPart

\* C10: a trait object is printed as the binder prefix, the principal path
\* with one merged generic list (or, where the call-trait sugar applies to the
\* principal, with the signature form in place of the list), ` + Capability`
\* per builtin bound, and ` + region` only for a non-empty region text.
C10_TraitObject ==
    TraitTyDone =>
        out = BinderPrefix(BinderRegionsIn)
              \o (IF SugarCase THEN <<item_path_str(inp.did)>> \o SugarSignature
                  ELSE BinderBody(Renamed(BinderRegionsIn)))
              \o Capabilities \o RegionBoundPart

C10_Witness ==
    /\ TraitTyDone
    /\ out = <<"std::iter::Iterator", "<", "Item", "=", "i32", ">",
               " + ", "Send", " + ", "Sync", " + ", "'a">>

\* ---- types
\* The text of the pieces, end to end.
RECURSIVE Text(_)
Text(f) == IF Len(f) = 0 THEN "" ELSE f[1] \o Text(Tail(f))

TyDone == inp.op = "Ty" /\ renders >= 1

\* The texts of the types tys with ", " between neighbours.
RECURSIVE CommaSeparated(_)
CommaSeparated(tys) ==
    IF Len(tys) = 0 THEN ""
    ELSE IF Len(tys) = 1 THEN Text(TyDisplay(tys[1]))
    ELSE Text(TyDisplay(tys[1])) \o ", " \o CommaSeparated(Tail(tys))

\* C11: a tuple is printed as `()` when empty, as `(e1,)` when it has one
\* element, and as `(e1, e2, ..., en)`, separated by `, ` with no trailing
\* comma, when it has two or more.
C11_Tuple ==
    (TyDone /\ inp.ty.k = "TyTuple") =>
        LET tys == inp.ty.a
        IN  Text(out) = CASE Len(tys) = 0 -> "()"
                          [] Len(tys) = 1 -> "(" \o Text(TyDisplay(tys[1])) \o ",)"
                          [] OTHER        -> "(" \o CommaSeparated(tys) \o ")"

C11_Witness ==
    /\ TyDone
    /\ inp.ty = TyTuple(<<TyTuple(<<TyI32>>), TyBool, TyI32>>)
    /\ Text(out) = "((i32,), bool, i32)"

\* C12: a reference is printed as `&`, the text of the region followed by one
\* space only when that text is not empty, `mut ` only when the reference is
\* mutable, and the inner type: `&mut i32` for a region without text and
\* `&'a mut i32` for the region 'a.
C12_Reference ==
    (TyDone /\ inp.ty.k = "TyRef") =>
        LET s == Text(RegionDisplay(verbose, inp.ty.r[1]))
        IN  /\ Text(out) = "&" \o (IF s = "" THEN "" ELSE s \o " ")
                               \o (IF inp.ty.mutbl THEN "mut " ELSE "")
                               \o Text(TyDisplay(inp.ty.a[1]))
            /\ (s = "" /\ inp.ty.mutbl /\ inp.ty.a[1] = TyI32) => Text(out) = "&mut i32"
            /\ (s = "'a" /\ inp.ty.mutbl /\ inp.ty.a[1] = TyI32) => Text(out) = "&'a mut i32"

C12_Witness ==
    /\ TyDone
    /\ inp.ty = TyRef(ReScope(0), TypeAndMut(TyRef(ReScope(0), TypeAndMut(TyI32, TRUE)), TRUE))
    /\ Text(out) = "&mut &mut i32"

\* ---- failure
\* C13: parameterized has no failure path: whatever the record, the item, the
\* namespace, the projections and the verbosity, and also when a lookup of
\* the context fails, the call completes and has written text.
C13_NoFailurePath ==
    ParamCalled => (res # "panic" /\ Len(out) >= 1)

\* The calls that complete: verbosity on, the sugar taken, or the generics
\* known to the context.
C13_CompletesUnlessLookupFails ==
    ParamCalled =>
        (res = "panic" <=> (~verbose /\ ~SugarCase /\ ~inp.generics.known))

\* ---- defaults that name the receiver type
\* The default of parameter i references the receiver type.
DefaultNamesSelf(i) ==
    /\ is_some(Defs[i].default)
    /\ has_self_ty(Defs[i].default[1])

\* number_of_supplied_defaults was entered by the last call and got its
\* generics.
ElisionCalled ==
    ParamCalled /\ ~verbose /\ ~SugarCase /\ inp.generics.known

\* C14: with no receiver type in the record, a parameter whose default
\* references the receiver type is never elided: the scan stops at it without
\* substituting the default (the call does not unwind in the substitution),
\* and its argument and every earlier argument are printed.
C14_SelfDefaultKept ==
    (ElisionCalled /\ ~HasSelf) =>
        \A i \in 1..Pairs :
            DefaultNamesSelf(i) =>
                /\ res = "Ok"
                /\ num_supplied_defaults <= Pairs - i
                /\ i <= Len(Tps) - num_supplied_defaults
                /\ IsAt(out, Len(PathHead), TypeSpaceList(num_supplied_defaults))
                /\ IsAt(out, Len(PathHead),
                        <<"<">> \o Join(RegionEntries(inp.substs.regions.TypeSpace)
                                        \o Displays(SubSeq(Tps, 1, i)), ", "))

\* Foo<A = Self, B = i32> with <bool, i32> and no receiver prints Foo<bool>.
C14_Witness ==
    /\ ElisionCalled
    /\ ~HasSelf
    /\ Defs = <<TypeParameterDef(Some(TySelf)), TypeParameterDef(Some(TyI32))>>
    /\ Tps = <<TyBool, TyI32>>
    /\ inp.substs.lifts /\ inp.generics.lifts
    /\ num_supplied_defaults = 1
    /\ out = <<"Foo", "<", "bool", ">">>

\* ---- verbosity and the accessor
\* C15: with verbosity on, parameterized never calls the accessor of the
\* generics nor number_of_supplied_defaults, and prints every type-space type
\* argument; with verbosity off the accessor is called at most once in a call.
C15_VerboseSkipsGenerics ==
    ParamCalled =>
        /\ verbose =>
               /\ gcalls = 0
               /\ res = "Ok"
               /\ num_supplied_defaults = 0
               /\ IsAt(out, Len(PathHead), TypeSpaceList(0))
        /\ ~verbose => gcalls \in {0, 1}

\* Verbosity on, a trailing argument equal to its default: it is printed.
C15_Witness ==
    /\ ParamCalled
    /\ verbose
    /\ Defs = <<TypeParameterDef(None), TypeParameterDef(Some(TyI32))>>
    /\ Tps = <<TyBool, TyI32>>
    /\ inp.ns = "Type"
    /\ gcalls = 0
    /\ out = <<"Foo", "<", "bool", ", ", "i32", ">">>

\* ---- binders that cannot be lifted
\* C16: when the value under the binder has no lifted copy, in_binder prints
\* the original value as it is and stops: no `for<...>` prefix is written and
\* no bound region is given a name.
C16_UnliftedBinder ==
    (BinderDone /\ ~inp.substs.lifts) =>
        /\ out = BinderBody(BinderRegionsIn)
        /\ Count(out, "for<") = 0
        /\ "'r" \notin interner

\* An anonymous and a named bound region, not lifted: Iterator<'_, 'a>.
C16_Witness ==
    /\ BinderDone
    /\ ~inp.substs.lifts
    /\ ~verbose
    /\ BinderRegionsIn = <<ReLateBound(1, BrAnon(0)), ReLateBound(1, BrNamed("'a"))>>
    /\ out = <<"std::iter::Iterator", "<", "'_", ", ", "'a", ">">>

\* ---- the range of the count
\* C17: the count number_of_supplied_defaults returns is between 0 and the
\* number of type arguments of the space, also when the generics declare more
\* or fewer parameters than the record has arguments; the slice of
\* parameterized does not underflow and exactly length minus count type
\* arguments are printed.
C17_CountInRange ==
    ElisionDone =>
        /\ 0 <= num_supplied_defaults
        /\ num_supplied_defaults <= Len(Tps)
        /\ num_supplied_defaults <= Len(Defs)
        /\ IsAt(out, Len(PathHead), TypeSpaceList(num_supplied_defaults))
        /\ inp.ns = "Type" => out = PathHead \o TypeSpaceList(num_supplied_defaults)

\* Two parameters with defaults, one argument: Foo<A = i32, B = i32> with
\* <i32> prints Foo.
C17_Witness ==
    /\ ElisionDone
    /\ Defs = <<TypeParameterDef(Some(TyI32)), TypeParameterDef(Some(TyI32))>>
    /\ Tps = <<TyI32>>
    /\ num_supplied_defaults = 1
    /\ out = <<"Foo">>

\* ---- delimiters
\* The number of delimiters parameterized opened and has not closed after
\* the first n pieces of the text: it opens with `<` and `::<` and closes
\* with `>`.
Depth(n) ==
    Count(SubSeq(out, 1, n), "<") + Count(SubSeq(out, 1, n), "::<")
    - Count(SubSeq(out, 1, n), ">")

Balanced == Depth(Len(out)) = 0 /\ \A n \in 0..Len(out) : Depth(n) >= 0

\* C18: in every text of parameterized the delimiters it writes itself are
\* balanced: each `<` it opens (receiver prefix, type-space list, method-level
\* list) is followed by exactly one matching `>`, in every namespace, with or
\* without receiver, for every projection list and verbosity, and on the
\* early return of the call-trait sugar as well.
C18_Balanced == ParamDone => Balanced

\* The delimiters of the calls that do not return through the sugar.
C18_BalancedUnlessSugar == (ParamDone /\ res # "sugar") => Balanced

\* ---- regions in the lists
\* The regions without a concise text: scope-local ones, inference variables
\* and bound, free or skolemized ones that carry no name.
ConciseIsEmpty(r) ==
    \/ r.k \in {"ReScope", "ReVar"}
    \/ r.k \in {"ReLateBound", "ReFree", "ReSkolemized"} /\ r.br.bk # "BrNamed"

ConciseText(r) ==
    CASE r.k = "ReEarlyBound" -> <<r.name>>
      [] r.k \in {"ReLateBound", "ReFree", "ReSkolemized"} -> <<r.br.name>>
      [] r.k = "ReStatic" -> <<"'static">>
      [] r.k = "ReEmpty" -> <<"'<empty>">>

\* What a list shows for the region r.
ListedRegion(r) ==
    IF verbose THEN RegionDebug(r)
    ELSE IF ConciseIsEmpty(r) THEN <<"'_">> ELSE ConciseText(r)

\* The list opened by open after the first n pieces of the text starts with
\* one entry per region of rs, none of them empty.
RegionsListedAt(n, open, rs) ==
    /\ \A i \in 1..Len(rs) : ListedRegion(rs[i]) # <<>> /\ Count(ListedRegion(rs[i]), "") = 0
    /\ Len(rs) >= 1 =>
           IsAt(out, n, <<open>> \o Join([i \in 1..Len(rs) |-> ListedRegion(rs[i])], ", "))

\* Where the method-level list of a value starts.
FnSpaceListStart ==
    Len(PathHead \o TypeSpaceList(num_supplied_defaults))
    + (IF HasSelf THEN 1 ELSE 0) + (IF IsAssociated THEN 2 ELSE 0)

\* The regions the body of a binder is printed with.
BodyRegions ==
    IF inp.substs.lifts THEN Renamed(BinderRegionsIn) ELSE BinderRegionsIn

\* C19: with verbosity off a region argument whose concise text is empty is
\* printed in a list of parameterized as `'_`, so a list has one entry per
\* region argument of its space and none is empty; with verbosity on each
\* region is printed in its debug form.
C19_RegionEntries ==
    /\ (ParamDone /\ ~SugarCase) =>
           /\ RegionsListedAt(Len(PathHead), "<", inp.substs.regions.TypeSpace)
           /\ inp.ns = "Value" =>
                  RegionsListedAt(FnSpaceListStart, "::<", inp.substs.regions.FnSpace)
    /\ BinderDone =>
           RegionsListedAt(Len(out) - Len(BinderBody(BodyRegions)) + 1, "<", BodyRegions)

\* A scope-local region and 'static: Foo<'_, 'static>; and an inference
\* variable in the method-level list.
C19_Witness ==
    /\ ParamDone
    /\ ~verbose
    /\ inp.ns = "Value"
    /\ inp.substs.regions.TypeSpace = <<ReScope(0), ReStatic>>
    /\ inp.substs.regions.FnSpace = <<ReEarlyBound(0, "'a"), ReVar(0)>>
    /\ IsAt(out, Len(PathHead), <<"<", "'_", ", ", "'static">>)
    /\ IsAt(out, FnSpaceListStart, <<"::<", "'a", ", ", "'_">>)

====
